---- MODULE Spec2Model ----
(***************************************************************************)
(* Model of the techblog-api rate limiter: middleware/rateLimiter          *)
(* (src/unnamed/part_009) and lib/redis (src/unnamed/part_004).            *)
(*                                                                         *)
(* Several service instances run the middleware.  Every instance has its   *)
(* own lib/redis module state (the variable `redis` and the connection     *)
(* status of the client) and its own in-memory rateLimitStore; all         *)
(* instances share one Redis server.  A request is a process that walks    *)
(* through the middleware: the synchronous prefix up to the first await    *)
(* is one step, and each awaited Redis command (incr, pexpire, pttl) is    *)
(* one step, so that commands of different requests interleave exactly     *)
(* where the awaits allow it.                                              *)
(***************************************************************************)
EXTENDS Integers, FiniteSets, Sequences, TLC

\* ---------------------------------------------------------------- bounds
\* policy.limit of the limiter under check
Limit == 1
\* policy.windowMs of the limiter under check (in clock ticks of 1 ms)
WindowMs == 2
\* the clock stops advancing here
MaxTime == 3
\* number of counted (not skipped) requests started in one behaviour
MaxReq == 4
\* number of Redis commands that fail in one behaviour
MaxFail == 1

\* ---------------------------------------------------------------- constants
\* Math.ceil(ms / 1000)
MsPerSecond == 1000

Keys == {"a"}
Instances == {"i1", "i2"}
\* one worker per instance; a worker takes its next request when it has
\* answered the last one
Procs == {"p1", "p2"}
InstOf(p) == IF p = "p1" THEN "i1" ELSE "i2"

\* a header / body field that was not set
Unset == -1
\* no function is being called on its own
NoCall == [fn |-> "none"]
\* the database before any post is written
EmptyDb == [status |-> "absent", authorId |-> "-", comments |-> 0]
\* Redis: key without an expiry
NoTTL == -1
\* rateLimitStore.get(key) === undefined
Absent == [count |-> 0, resetTime |-> -1]

VARIABLES
    nodeEnv,        \* process.env.NODE_ENV
    redisUrl,       \* process.env.REDIS_URL is set
    redis,          \* lib/redis: the module variable `redis`, per instance
    status,         \* redis.status of the client, per instance
    rateLimitStore, \* the in-memory Map, per instance
    store,          \* the Redis server: key -> [count, exp]
    now,            \* Date.now() (one clock for all instances and the server)
    pc,             \* where each request is in the middleware
    req,            \* locals of the request: key, currentCount
    resp,           \* what the request's response holds so far
    trace,          \* history of each request (what it touched)
    hist,           \* history of the counters (windows, orders)
    call,           \* the arguments of a function called on its own
    result,         \* what that call returned
    db              \* the post and the comments the comments route sees

vars == <<nodeEnv, redisUrl, redis, status, rateLimitStore, store, now,
          pc, req, resp, trace, hist, call, result, db>>

\* ---------------------------------------------------------------- helpers
\* mutant: Math.max(0, ...) dropped from the remaining count
MaxDropped(a, b) == b

Max(a, b) == IF a >= b THEN a ELSE b

\* Math.ceil(x / d) for d > 0, also for x <= 0
Ceil(x, d) == -((-x) \div d)

\* ---------------------------------------------------------------- lib/redis
\* getRedisClient(): the value of the module variable `redis` after the call,
\* which is also the value the call returns (every branch returns what it
\* has just stored).  r is the module variable before the call, url says
\* whether REDIS_URL is set, ctorOk whether `new Redis(...)` returns.
getRedisClient(r, url, ctorOk) ==
    IF r # "undefined" THEN r
    ELSE IF ~url THEN "null"
    ELSE IF ctorOk THEN "client"
    ELSE "null"

\* isRedisAvailable()
isRedisAvailable(r, st) == r # "null" /\ st = "ready"

\* ---------------------------------------------------------------- Redis server
\* a key that does not exist
NoKey == [count |-> 0, exp |-> NoTTL]

\* mutant: a read in place of the atomic increment
RedisIncrRead(s) ==
    IF s.count = 0 THEN [count |-> 1, exp |-> NoTTL] ELSE s

\* INCR key: creates the key (without expiry) when it does not exist
RedisIncr(s) ==
    IF s.count = 0 THEN [count |-> 1, exp |-> NoTTL]
    ELSE [s EXCEPT !.count = @ + 1]

\* PEXPIRE key ms, issued at time t: no effect on a key that does not exist
RedisPexpire(s, t, ms) ==
    IF s.count = 0 THEN s ELSE [s EXCEPT !.exp = t + ms]

\* PTTL key at time t: -2 no key, -1 no expiry, else the remaining ms
RedisPttl(s, t) ==
    IF s.count = 0 THEN -2
    ELSE IF s.exp = NoTTL THEN -1
    ELSE s.exp - t

\* the server drops a key when its expiry is reached
RedisExpire(s, t) ==
    IF s.count > 0 /\ s.exp # NoTTL /\ s.exp <= t THEN NoKey ELSE s

\* rateLimiter: resetTime - now, for resetTime = now + (ttl > 0 ? ttl : windowMs)
RedisResetMs(ttl, windowMs) == IF ttl > 0 THEN ttl ELSE windowMs

\* ---------------------------------------------------------------- responses
\* rateLimiter: the default of options.message
Message == "Too many requests, please try again later"

NoResponse ==
    [status |-> "none", error |-> "none", message |-> "none", hLimit |-> Unset,
     hRemaining |-> Unset, hReset |-> Unset, hRetryAfter |-> Unset,
     retryAfter |-> Unset]

\* return next() with no header set
NextResponse == [NoResponse EXCEPT !.status = "next"]

\* rateLimiter, catch block in production: c.json({error, message}, 503)
Unavailable503 ==
    [NoResponse EXCEPT !.status = "503",
                       !.error = "Service temporarily unavailable",
                       !.message = "Rate limiting service is unavailable. Please try again later."]

\* mutant: the expiry is set on every request (a sliding window)
CreatedCounterAlways(currentCount) == TRUE

\* rateLimiter: "currentCount === 1", the request that created the counter
CreatedCounter(currentCount) == currentCount = 1

\* mutant: the try block ends after the INCR
InTryIncrOnly(at) == at = "incr"

\* rateLimiter: the awaits that the try block encloses
InTry(at) == at \in {"incr", "pexpire", "pttl"}

\* an exception that leaves the middleware: the framework answers 500
Uncaught500 ==
    [NoResponse EXCEPT !.status = "500", !.error = "Internal Server Error"]

\* mutant: the catch block answers 503 in every environment
FailClosedAlways(env) == TRUE

\* mutant: the catch block falls back in every environment
FailClosedNever(env) == FALSE

\* rateLimiter, catch block: process.env.NODE_ENV === "production"
FailClosed(env) == env = "production"

\* mutant: the request that reaches the limit is rejected
LimitExceededAtLimit(count, limit) == count >= limit

\* rateLimiter: "count > limit"
LimitExceeded(count, limit) == count > limit

\* rateLimiter: the headers, then 429 or next()
RateLimiterRespond(count, limit, remaining, resetSeconds) ==
    IF LimitExceeded(count, limit)
    THEN [status |-> "429", error |-> "Rate limit exceeded",
          message |-> Message,
          hLimit |-> limit, hRemaining |-> remaining, hReset |-> resetSeconds,
          hRetryAfter |-> resetSeconds, retryAfter |-> resetSeconds]
    ELSE [status |-> "next", error |-> "none", message |-> "none",
          hLimit |-> limit, hRemaining |-> remaining, hReset |-> resetSeconds,
          hRetryAfter |-> Unset, retryAfter |-> Unset]

\* ---------------------------------------------------------------- fallback table
\* mutant: an entry is never reset once it exists
WindowExpiredNever(entry, t) == entry = Absent

\* handleInMemoryRateLimit: "!entry || entry.resetTime < now"
WindowExpired(entry, t) == entry = Absent \/ entry.resetTime < t

\* handleInMemoryRateLimit: the entry after "entry.count++"
InMemoryCount(entry, t, windowMs) ==
    LET e == IF WindowExpired(entry, t)
             THEN [count |-> 0, resetTime |-> t + windowMs]
             ELSE entry
    IN  [e EXCEPT !.count = @ + 1]

\* mutant: the table rejects the request that reaches the limit
InMemoryLimitExceededAtLimit(count, limit) == count >= limit

\* handleInMemoryRateLimit: "entry.count > limit"
InMemoryLimitExceeded(count, limit) == count > limit

\* handleInMemoryRateLimit: the headers, then 429 or next()
InMemoryRespond(entry, t, limit) ==
    LET remaining == Max(0, limit - entry.count)
        resetSeconds == Ceil(entry.resetTime - t, MsPerSecond)
    IN  IF InMemoryLimitExceeded(entry.count, limit)
        THEN [status |-> "429", error |-> "Rate limit exceeded",
              message |-> Message,
              hLimit |-> limit, hRemaining |-> remaining,
              hReset |-> resetSeconds, hRetryAfter |-> resetSeconds,
              retryAfter |-> resetSeconds]
        ELSE [status |-> "next", error |-> "none", message |-> "none",
              hLimit |-> limit, hRemaining |-> remaining,
              hReset |-> resetSeconds, hRetryAfter |-> Unset,
              retryAfter |-> Unset]

\* mutant: the sweep also deletes the entries whose window ends now
SweepTableInclusive(tbl, t) ==
    [k \in DOMAIN tbl |->
        IF tbl[k] # Absent /\ tbl[k].resetTime <= t THEN Absent ELSE tbl[k]]

\* the setInterval callback: delete every entry with resetTime < now
SweepTable(tbl, t) ==
    [k \in DOMAIN tbl |->
        IF tbl[k] # Absent /\ tbl[k].resetTime < t THEN Absent ELSE tbl[k]]

\* ---------------------------------------------------------------- state
\* the locals of rateLimiter that live across an await.  `now` of line 60
\* is not among them: its only use is resetTime = now + d followed by
\* resetTime - now, which is d (see RedisResetMs)
IdleReq == [key |-> "-", currentCount |-> 0]

\* what a request has done so far: the store that decided it, the Redis
\* commands the server applied for it, its writes to the fallback table,
\* the command that threw, its place in the window it was counted in
\* (ord), whether it opened that window (fresh) and, if so, how many
\* requests the window before had counted (prev)
IdleTrace ==
    [mode |-> "none", incrs |-> 0, pexpires |-> 0, pttls |-> 0,
     memWrites |-> 0, threw |-> "none",
     ordR |-> 0, genR |-> 0, freshR |-> FALSE,
     ordM |-> 0, freshM |-> FALSE, prev |-> 0]

\* history of the counters.  genR/hitsR: how many times the Redis key was
\* created and how many INCRs its current incarnation has taken; allowedR:
\* requests let through per incarnation; endM/hitsM: a reference fixed
\* window for the fallback table of each instance, kept beside the table
InitHist ==
    [nreq |-> 0,
     nfail |-> 0,
     genR |-> [k \in Keys |-> 0],
     hitsR |-> [k \in Keys |-> 0],
     allowedR |-> [k \in Keys |-> [g \in 1..MaxReq |-> 0]],
     endM |-> [i \in Instances |-> [k \in Keys |-> -1]],
     hitsM |-> [i \in Instances |-> [k \in Keys |-> 0]],
     called |-> [i \in Instances |-> FALSE],
     got |-> [i \in Instances |-> "null"]]

InitCommon ==
    /\ nodeEnv \in {"production", "development"}
    /\ rateLimitStore = [i \in Instances |-> [k \in Keys |-> Absent]]
    /\ store = [k \in Keys |-> NoKey]
    /\ now = 0
    /\ pc = [p \in Procs |-> "idle"]
    /\ req = [p \in Procs |-> IdleReq]
    /\ resp = [p \in Procs |-> NoResponse]
    /\ trace = [p \in Procs |-> IdleTrace]
    /\ hist = InitHist
    /\ call = NoCall
    /\ result = NoCall
    /\ db = EmptyDb

\* the program as shipped: lib/redis starts with "let redis = null"
Init ==
    /\ InitCommon
    /\ redisUrl \in BOOLEAN
    /\ redis = [i \in Instances |-> "null"]
    /\ status = [i \in Instances |-> "wait"]

\* ---------------------------------------------------------------- actions
\* handleInMemoryRateLimit(c, next, key, limit, windowMs, message), run by
\* request p at the current instant; tr and h are the request's trace and
\* the history as left by the caller
handleInMemoryRateLimit(p, k, tr, h) ==
    LET i == InstOf(p)
        entry == InMemoryCount(rateLimitStore[i][k], now, WindowMs)
        open == h.hitsM[i][k] > 0 /\ now <= h.endM[i][k]
        ord == IF open THEN h.hitsM[i][k] + 1 ELSE 1
    IN  /\ rateLimitStore' = [rateLimitStore EXCEPT ![i][k] = entry]
        /\ resp' = [resp EXCEPT ![p] = InMemoryRespond(entry, now, Limit)]
        /\ trace' = [trace EXCEPT ![p] =
                        [tr EXCEPT !.mode = "memory",
                                   !.memWrites = @ + 1,
                                   !.ordM = ord,
                                   !.freshM = ~open,
                                   !.prev = IF open THEN 0
                                            ELSE h.hitsM[i][k]]]
        /\ hist' = [h EXCEPT !.hitsM[i][k] = ord,
                             !.endM[i][k] = IF open THEN @ ELSE now + WindowMs]
        /\ pc' = [pc EXCEPT ![p] = "done"]

\* mutant: the skip test comes after the counting
SkipCounted(p) ==
    /\ pc[p] \in {"idle", "done"}
    /\ \E k \in Keys :
        LET i == InstOf(p)
        IN  rateLimitStore' = [rateLimitStore EXCEPT ![i][k] =
                                 InMemoryCount(@, now, WindowMs)]
    /\ pc' = [pc EXCEPT ![p] = "done"]
    /\ req' = [req EXCEPT ![p] = IdleReq]
    /\ resp' = [resp EXCEPT ![p] = NextResponse]
    /\ trace' = [trace EXCEPT ![p] = [IdleTrace EXCEPT !.mode = "skip"]]
    /\ UNCHANGED <<db, call, result, nodeEnv, redisUrl, redis, status, store, now, hist>>

\* rateLimiter: skip(c) is true
Skip(p) ==
    /\ pc[p] \in {"idle", "done"}
    /\ pc' = [pc EXCEPT ![p] = "done"]
    /\ req' = [req EXCEPT ![p] = IdleReq]
    /\ resp' = [resp EXCEPT ![p] = NextResponse]
    /\ trace' = [trace EXCEPT ![p] = [IdleTrace EXCEPT !.mode = "skip"]]
    /\ UNCHANGED <<db, call, result, nodeEnv, redisUrl, redis, status, rateLimitStore, store,
                   now, hist>>

\* redis.status as a request may find it: the connection of a client comes
\* and goes between requests; without a client there is none
ConnectionStates(r) ==
    IF r = "client" THEN {"ready", "reconnecting"} ELSE {"wait"}

\* rateLimiter up to its first await: the key, Date.now(), getRedisClient(),
\* and either the call of redis.incr or the whole in-memory branch
Enter(p, k) ==
    /\ pc[p] \in {"idle", "done"}
    /\ hist.nreq < MaxReq
    /\ \E ctorOk \in BOOLEAN, st \in ConnectionStates(redis[InstOf(p)]) :
        LET i == InstOf(p)
            client == getRedisClient(redis[i], redisUrl, ctorOk)
            h == [hist EXCEPT !.nreq = @ + 1,
                              !.called[i] = TRUE,
                              !.got[i] = client]
        IN  /\ redis' = [redis EXCEPT ![i] = client]
            /\ req' = [req EXCEPT ![p] = [key |-> k, currentCount |-> 0]]
            /\ status' = [status EXCEPT ![i] = st]
            /\ IF client # "null" /\ isRedisAvailable(client, st)
               THEN /\ pc' = [pc EXCEPT ![p] = "incr"]
                    /\ trace' = [trace EXCEPT ![p] =
                                    [IdleTrace EXCEPT !.mode = "redis"]]
                    /\ resp' = [resp EXCEPT ![p] = NoResponse]
                    /\ hist' = h
                    /\ UNCHANGED rateLimitStore
               ELSE handleInMemoryRateLimit(p, k, IdleTrace, h)
    /\ UNCHANGED <<db, call, result, nodeEnv, redisUrl, store, now>>

\* await redis.incr(redisKey) returns
Incr(p) ==
    /\ pc[p] = "incr"
    /\ LET k == req[p].key
           s == RedisIncr(store[k])
           created == store[k].count = 0
           g == IF created THEN hist.genR[k] + 1 ELSE hist.genR[k]
           n == IF created THEN 1 ELSE hist.hitsR[k] + 1
       IN  /\ store' = [store EXCEPT ![k] = s]
           /\ req' = [req EXCEPT ![p].currentCount = s.count]
           /\ pc' = [pc EXCEPT ![p] =
                        IF CreatedCounter(s.count) THEN "pexpire" ELSE "pttl"]
           /\ trace' = [trace EXCEPT ![p].incrs = @ + 1,
                                     ![p].ordR = n,
                                     ![p].genR = g,
                                     ![p].freshR = created,
                                     ![p].prev = IF created THEN hist.hitsR[k]
                                                 ELSE 0]
           /\ hist' = [hist EXCEPT !.genR[k] = g, !.hitsR[k] = n]
    /\ UNCHANGED <<db, call, result, nodeEnv, redisUrl, redis, status, rateLimitStore, now, resp>>

\* await redis.pexpire(redisKey, windowMs) returns
Pexpire(p) ==
    /\ pc[p] = "pexpire"
    /\ LET k == req[p].key
       IN  store' = [store EXCEPT ![k] = RedisPexpire(@, now, WindowMs)]
    /\ pc' = [pc EXCEPT ![p] = "pttl"]
    /\ trace' = [trace EXCEPT ![p].pexpires = @ + 1]
    /\ UNCHANGED <<db, call, result, nodeEnv, redisUrl, redis, status, rateLimitStore, now,
                   req, resp, hist>>

\* await redis.pttl(redisKey) returns; the rest of rateLimiter follows
\* without another await
Pttl(p) ==
    /\ pc[p] = "pttl"
    /\ LET k == req[p].key
           ttl == RedisPttl(store[k], now)
           count == req[p].currentCount
           remaining == Max(0, Limit - count)
           resetSeconds == Ceil(RedisResetMs(ttl, WindowMs), MsPerSecond)
           r == RateLimiterRespond(count, Limit, remaining, resetSeconds)
           g == trace[p].genR
       IN  /\ resp' = [resp EXCEPT ![p] = r]
           /\ hist' = IF r.status = "next"
                      THEN [hist EXCEPT !.allowedR[k][g] = @ + 1]
                      ELSE hist
    /\ pc' = [pc EXCEPT ![p] = "done"]
    /\ trace' = [trace EXCEPT ![p].pttls = @ + 1]
    /\ UNCHANGED <<db, call, result, nodeEnv, redisUrl, redis, status, rateLimitStore, store,
                   now, req>>

\* the awaited command rejects.  Inside the try block the catch block runs:
\* 503 in production, handleInMemoryRateLimit otherwise; an await outside
\* of it would let the exception leave the middleware
CatchWithin(p, maxFail) ==
    /\ pc[p] \in {"incr", "pexpire", "pttl"}
    /\ hist.nfail < maxFail
    /\ LET tr == [trace[p] EXCEPT !.threw = pc[p]]
           h == [hist EXCEPT !.nfail = @ + 1]
       IN  IF ~InTry(pc[p])
           THEN /\ resp' = [resp EXCEPT ![p] = Uncaught500]
                /\ trace' = [trace EXCEPT ![p] =
                                [tr EXCEPT !.mode = "uncaught"]]
                /\ pc' = [pc EXCEPT ![p] = "done"]
                /\ hist' = h
                /\ UNCHANGED rateLimitStore
           ELSE IF FailClosed(nodeEnv)
           THEN /\ resp' = [resp EXCEPT ![p] = Unavailable503]
                /\ trace' = [trace EXCEPT ![p] =
                                [tr EXCEPT !.mode = "unavailable"]]
                /\ pc' = [pc EXCEPT ![p] = "done"]
                /\ hist' = h
                /\ UNCHANGED rateLimitStore
           ELSE handleInMemoryRateLimit(p, req[p].key, tr, h)
    /\ UNCHANGED <<db, call, result, nodeEnv, redisUrl, redis, status, store, now, req>>

\* at most MaxFail commands fail in a behaviour
Catch(p) == CatchWithin(p, MaxFail)

\* the setInterval callback of instance i
Sweep(i) ==
    /\ rateLimitStore[i] # SweepTable(rateLimitStore[i], now)
    /\ rateLimitStore' = [rateLimitStore EXCEPT ![i] = SweepTable(@, now)]
    /\ UNCHANGED <<db, call, result, nodeEnv, redisUrl, redis, status, store, now, pc, req,
                   resp, trace, hist>>

\* one millisecond passes; the server drops the keys whose expiry is reached
Tick ==
    /\ now < MaxTime
    /\ now' = now + 1
    /\ store' = [k \in Keys |-> RedisExpire(store[k], now + 1)]
    /\ UNCHANGED <<db, call, result, nodeEnv, redisUrl, redis, status, rateLimitStore, pc, req,
                   resp, trace, hist>>

\* the program as shipped: getRedisClient never hands out a client, so no
\* request reaches the Redis branch
Next ==
    \/ \E p \in Procs : Skip(p)
    \/ \E p \in Procs, k \in Keys : Enter(p, k)
    \/ \E i \in Instances : Sweep(i)
    \/ Tick

Spec == Init /\ [][Next]_vars

\* the limiter with a constructed client in lib/redis (REDIS_URL set and
\* "new Redis" done), the state its Redis branch is written for.  Requests
\* that skip touch nothing the others read and are left to Spec
InitStore ==
    /\ InitCommon
    /\ redisUrl = TRUE
    /\ redis = [i \in Instances |-> "client"]
    /\ status = [i \in Instances |-> "connecting"]

NextStore ==
    \/ \E p \in Procs, k \in Keys : Enter(p, k)
    \/ \E p \in Procs : Incr(p)
    \/ \E p \in Procs : Pexpire(p)
    \/ \E p \in Procs : Pttl(p)
    \/ \E p \in Procs : Catch(p)
    \/ \E i \in Instances : Sweep(i)
    \/ Tick

SpecStore == InitStore /\ [][NextStore]_vars

\* ---------------------------------------------------------------- claims
Answered(p) == pc[p] = "done"

\* C1: the i-th request counted in a window is let through when i <= limit
\* and answered 429 when i = limit + 1 (and beyond), for the requests
\* decided by the Redis counter and for those decided by the fallback table
C1_LimitThenReject ==
    \A p \in Procs :
        Answered(p) =>
            /\ trace[p].mode = "redis" =>
                 resp[p].status =
                    IF trace[p].ordR <= Limit THEN "next" ELSE "429"
            /\ trace[p].mode = "memory" =>
                 resp[p].status =
                    IF trace[p].ordM <= Limit THEN "next" ELSE "429"

\* a (limit+1)-th request rejected by Redis and one rejected by the table
C1_Witness ==
    \E p, q \in Procs :
        /\ Answered(p) /\ trace[p].mode = "redis"
        /\ trace[p].ordR = Limit + 1 /\ resp[p].status = "429"
        /\ Answered(q) /\ trace[q].mode = "memory"
        /\ trace[q].ordM = Limit + 1 /\ resp[q].status = "429"

\* C2: in production no request is decided by the fallback table and the
\* table is never written
C2_ProductionNeverFallsBack ==
    nodeEnv = "production" =>
        /\ \A p \in Procs : trace[p].mode # "memory"
        /\ \A i \in Instances, k \in Keys : rateLimitStore[i][k] = Absent

\* C3: in production a request whose incr, pexpire or pttl threw is answered
\* 503 with no rate-limit header, is not passed on, and wrote nothing to the
\* fallback table
C3_FailClosed ==
    \A p \in Procs :
        (Answered(p) /\ nodeEnv = "production" /\ trace[p].threw # "none") =>
            /\ resp[p] = Unavailable503
            /\ resp[p].hLimit = Unset /\ resp[p].hRemaining = Unset
            /\ resp[p].hReset = Unset /\ resp[p].hRetryAfter = Unset
            /\ trace[p].memWrites = 0

\* pexpire threw in production and the request was answered 503
C3_Witness ==
    /\ nodeEnv = "production"
    /\ \E p \in Procs :
        /\ Answered(p) /\ trace[p].threw = "pexpire"
        /\ resp[p].status = "503"

\* C4: with REDIS_URL set, getRedisClient() hands out the client it created
C4_ClientCreated ==
    \A i \in Instances :
        (redisUrl /\ hist.called[i]) =>
            (hist.got[i] = "client" /\ redis[i] = "client")

\* C5: the counts that requests of all instances get from INCR within one
\* incarnation of a key are pairwise distinct and are 1, 2, 3, ... in the
\* order of the increments, and at most `limit` requests of an incarnation
\* are let through
C5_TotalOrder ==
    /\ \A p, q \in Procs :
        (/\ p # q
         /\ trace[p].incrs = 1 /\ trace[q].incrs = 1
         /\ req[p].key = req[q].key
         /\ trace[p].genR = trace[q].genR)
            => req[p].currentCount # req[q].currentCount
    /\ \A p \in Procs :
        trace[p].incrs = 1 => req[p].currentCount = trace[p].ordR
    /\ \A k \in Keys, g \in 1..MaxReq : hist.allowedR[k][g] <= Limit

\* two instances counted in the same incarnation; one request was let
\* through and the other rejected
C5_Witness ==
    \E p, q \in Procs :
        /\ InstOf(p) # InstOf(q)
        /\ Answered(p) /\ Answered(q)
        /\ trace[p].mode = "redis" /\ trace[q].mode = "redis"
        /\ req[p].key = req[q].key /\ trace[p].genR = trace[q].genR
        /\ resp[p].status = "next" /\ resp[q].status = "429"

\* C6: a request that skips is passed on with no header and changes neither
\* the fallback tables nor the Redis counters
C6_SkipTouchesNothing ==
    [][\A p \in Procs :
        (trace'[p].mode = "skip" /\ <<pc[p], trace[p], resp[p]>>
                                      # <<pc'[p], trace'[p], resp'[p]>>)
            => /\ resp'[p] = NextResponse
               /\ rateLimitStore' = rateLimitStore
               /\ store' = store
               /\ hist' = hist]_vars

\* a request skipped while a counter of its instance was in use
C6_Witness ==
    \E p \in Procs :
        /\ Answered(p) /\ trace[p].mode = "skip"
        /\ \E k \in Keys : rateLimitStore[InstOf(p)][k].count > Limit

\* C7: a request counted after the window of its key has elapsed is counted
\* as 1 and let through, whatever the window before had counted
C7_ElapsedWindowRestarts ==
    \A p \in Procs :
        Answered(p) =>
            /\ (trace[p].mode = "redis" /\ trace[p].freshR) =>
                 /\ req[p].currentCount = 1
                 /\ resp[p].status = "next"
                 /\ resp[p].hRemaining = Limit - 1
            /\ (trace[p].mode = "memory" /\ trace[p].freshM) =>
                 /\ resp[p].status = "next"
                 /\ resp[p].hRemaining = Limit - 1

\* a request let through after a window that had gone over the limit
C7_Witness ==
    \E p \in Procs :
        /\ Answered(p) /\ trace[p].mode = "memory" /\ trace[p].freshM
        /\ trace[p].prev > Limit
        /\ resp[p].status = "next"

\* C8: the expiry of a Redis counter is set only by pexpire of the request
\* whose INCR returned 1, and an INCR on an existing counter leaves it
\* alone; resetTime of a table entry is written only when the entry is
\* absent or expired, and a request inside the window adds 1 to the count
\* and leaves resetTime alone
C8_FixedWindow ==
    [][/\ \A k \in Keys :
            /\ (store'[k].count > 0 /\ store'[k].exp # store[k].exp) =>
                 \E p \in Procs :
                    /\ pc[p] = "pexpire" /\ pc'[p] = "pttl"
                    /\ req[p].key = k /\ req[p].currentCount = 1
            /\ (store[k].count > 0 /\ store'[k].count # store[k].count
                                   /\ store'[k].count > 0) =>
                 /\ store'[k].count = store[k].count + 1
                 /\ store'[k].exp = store[k].exp
       /\ \A i \in Instances, k \in Keys :
            LET e == rateLimitStore[i][k]
                f == rateLimitStore'[i][k]
            IN  (f # e /\ f # Absent) =>
                    IF e # Absent /\ now <= e.resetTime
                    THEN f.count = e.count + 1 /\ f.resetTime = e.resetTime
                    ELSE f.count = 1 /\ f.resetTime = now + WindowMs
      ]_vars

\* a second request was counted in a Redis window and one in a table window
\* while the end of both windows stayed where the first request put it
C8_Witness ==
    /\ \E p \in Procs :
        /\ Answered(p) /\ trace[p].mode = "redis"
        /\ req[p].currentCount > 1 /\ trace[p].pexpires = 0
        /\ store[req[p].key].exp # NoTTL
    /\ \E i \in Instances, k \in Keys :
        /\ rateLimitStore[i][k].count > 1
        /\ rateLimitStore[i][k].resetTime < now + WindowMs

\* C9: no Redis counter is past 1 while its expiry is unset
C9_IncrAndExpireAtomic ==
    \A k \in Keys : store[k].count > 1 => store[k].exp # NoTTL

\* C10: when no request is in flight every Redis counter has an expiry
C10_EveryCounterExpires ==
    (\A p \in Procs : pc[p] \in {"idle", "done"}) =>
        \A k \in Keys : store[k].count > 0 => store[k].exp # NoTTL

\* increments a request has applied, to the Redis counter and to the table
Increments(p) == trace[p].incrs + trace[p].memWrites

\* C11 as stated: every answered non-skipped request has applied exactly one
\* increment, to the Redis counter or to the fallback table entry
C11_ExactlyOneIncrement ==
    \A p \in Procs :
        (Answered(p) /\ trace[p].mode # "skip") => Increments(p) = 1

\* C11 amended: a request on which no Redis command failed has applied
\* exactly one increment; a request on which a command failed has applied
\* none to the table in production, one to the table in development, and
\* one to the Redis counter besides unless the failing command was the INCR
C11_IncrementsByOutcome ==
    \A p \in Procs :
        (Answered(p) /\ trace[p].mode # "skip") =>
            /\ trace[p].incrs <= 1 /\ trace[p].memWrites <= 1
            /\ trace[p].threw = "none" => Increments(p) = 1
            /\ (trace[p].threw # "none" /\ nodeEnv = "production") =>
                    trace[p].memWrites = 0
            /\ (trace[p].threw # "none" /\ nodeEnv # "production") =>
                    trace[p].memWrites = 1
            /\ trace[p].threw = "incr" => trace[p].incrs = 0
            /\ trace[p].threw \in {"pexpire", "pttl"} => trace[p].incrs = 1

\* a development request was counted by Redis, its PEXPIRE failed and the
\* table counted it again
C11_Witness ==
    \E p \in Procs :
        /\ Answered(p) /\ nodeEnv = "development"
        /\ trace[p].threw = "pexpire" /\ Increments(p) = 2

\* a request answered by a counter: next() or 429 with the three headers
Decided(p) == Answered(p) /\ trace[p].mode \in {"redis", "memory"}

\* the place of a decided request in its window, counted beside the code
Place(p) == IF trace[p].mode = "redis" THEN trace[p].ordR ELSE trace[p].ordM

C13_ResetWithinWindow ==
    \A p \in Procs :
        Decided(p) =>
            /\ resp[p].hReset > 0
            /\ resp[p].hReset <= Ceil(WindowMs, MsPerSecond)

\* the step in which request p is answered by a counter: its last Redis
\* command returns, or the table of its instance counts it
DecidesNow(p) ==
    /\ pc'[p] = "done"
    /\ trace'[p].mode \in {"redis", "memory"}
    /\ \/ pc[p] \notin {"idle", "done"}
       \/ hist'.hitsM[InstOf(p)] # hist.hitsM[InstOf(p)]
       \/ hist'.endM[InstOf(p)] # hist.endM[InstOf(p)]

\* the counter that answered p has an end of window
HasWindowEnd(p) ==
    \/ trace[p].mode = "memory"
    \/ trace[p].mode = "redis" /\ store[req[p].key].count > 0
            /\ store[req[p].key].exp # NoTTL

\* milliseconds left in the window of the counter that answered p
LeftMs(p) ==
    IF trace[p].mode = "memory"
    THEN hist.endM[InstOf(p)][req[p].key] - now
    ELSE store[req[p].key].exp - now

\* C14: a request is rejected iff its place in the window is past the
\* limit; a rejection is a 429 (never next()) whose body has the error, the
\* policy message and retryAfter = ceil(ms left in the window / 1000), and
\* whose Retry-After and X-RateLimit-Reset headers equal retryAfter
C14_RejectIffOverLimit ==
    [][\A p \in Procs :
        DecidesNow(p) =>
            /\ resp'[p].status \in {"next", "429"}
            /\ (resp'[p].status = "429") <=> (Place(p)' > Limit)
            /\ resp'[p].status = "429" =>
                /\ resp'[p].error = "Rate limit exceeded"
                /\ resp'[p].message = Message
                /\ resp'[p].hRetryAfter = resp'[p].retryAfter
                /\ resp'[p].hReset = resp'[p].retryAfter
                /\ HasWindowEnd(p)' =>
                        resp'[p].retryAfter = Ceil(LeftMs(p)', MsPerSecond)
      ]_vars

\* requests past the limit were answered 429 with retryAfter, Retry-After
\* and X-RateLimit-Reset of one second, one by Redis and one by the table
C14_Witness ==
    /\ \E p \in Procs :
        /\ Decided(p) /\ trace[p].mode = "redis" /\ resp[p].status = "429"
        /\ resp[p].retryAfter = 1 /\ resp[p].hRetryAfter = 1
        /\ resp[p].hReset = 1
    /\ \E p \in Procs :
        /\ Decided(p) /\ trace[p].mode = "memory" /\ resp[p].status = "429"
        /\ resp[p].retryAfter = 1 /\ resp[p].hRetryAfter = 1
        /\ resp[p].hReset = 1

\* C15: every answered non-skipped request ended in next(), 429 or 503,
\* also when a Redis command failed on it (never an exception that leaves
\* the middleware as a 500); 503 is answered only in production
C15_FailureNeverEscapes ==
    \A p \in Procs :
        (Answered(p) /\ trace[p].mode # "skip") =>
            /\ resp[p].status \in {"next", "429", "503"}
            /\ trace[p].mode # "uncaught"
            /\ resp[p].status = "503" => nodeEnv = "production"

\* PTTL, the last command of the try block, failed in development and the
\* request went on to the downstream handler
C15_Witness ==
    \E p \in Procs :
        /\ Answered(p) /\ nodeEnv = "development"
        /\ trace[p].threw = "pttl" /\ resp[p].status = "next"

\* ---------------------------------------------------------------- development
\* the limiter in development, one worker of one instance, with a store
\* that may fail on every request of a window and on one more
MaxDevFail == Limit + 1

DevProc == "p1"

InitDev == InitStore /\ nodeEnv = "development"

NextDev ==
    \/ \E k \in Keys : Enter(DevProc, k)
    \/ Incr(DevProc)
    \/ Pexpire(DevProc)
    \/ Pttl(DevProc)
    \/ CatchWithin(DevProc, MaxDevFail)
    \/ Sweep(InstOf(DevProc))
    \/ Tick

SpecDev == InitDev /\ [][NextDev]_vars

\* C16: in development a request on which a Redis command failed is
\* decided by the fallback table of its instance: the three headers are
\* set, it is let through while its place in the table's window is within
\* the limit and rejected with 429 and Retry-After past it
C16_FallbackEnforcesLimit ==
    \A p \in Procs :
        (Answered(p) /\ trace[p].threw # "none") =>
            /\ trace[p].mode = "memory"
            /\ trace[p].memWrites = 1
            /\ resp[p].hLimit = Limit
            /\ resp[p].hRemaining # Unset /\ resp[p].hReset # Unset
            /\ trace[p].ordM <= Limit =>
                    resp[p].status = "next" /\ resp[p].hRetryAfter = Unset
            /\ trace[p].ordM > Limit =>
                    /\ resp[p].status = "429"
                    /\ resp[p].hRetryAfter = resp[p].hReset
                    /\ resp[p].retryAfter = resp[p].hReset

\* the store failed on each of the first Limit + 1 requests, all of one
\* key on one instance inside one window, and the last of them was rejected
C16_Witness ==
    \E p \in Procs :
        /\ Answered(p) /\ trace[p].threw # "none"
        /\ hist.nreq = Limit + 1 /\ hist.nfail = Limit + 1
        /\ trace[p].ordM = Limit + 1
        /\ resp[p].status = "429"

\* ---------------------------------------------------------------- a silent store
\* the limiter beside a store that is free never to answer: time passes and
\* the sweep timer fires, but the return of an awaited Redis command, with
\* a value or with an error, is the store's step and nothing forces it.
\* The client is built without commandTimeout and rateLimiter wraps no
\* await in a timer, so the program has no step of its own that ends a wait
SpecHang ==
    /\ InitStore
    /\ [][NextStore]_vars
    /\ WF_vars(Tick)
    /\ \A i \in Instances : WF_vars(Sweep(i))

\* request p waits for the answer to a Redis command
Waiting(p) == pc[p] \in {"incr", "pexpire", "pttl"}

\* C17: every request that waits for the store is eventually answered
C17_EventuallyDecided ==
    \A p \in Procs : Waiting(p) ~> Answered(p)

\* ---------------------------------------------------------------- hashString
\* A JavaScript string is a sequence of UTF-16 code units, here a sequence
\* of one-unit strings.  A number is kept as two 16-bit halves,
\* value = hi * 2^16 + lo with lo in 0 .. 2^16 - 1, so that the exact
\* (double) results of line 223, which leave the 32-bit range, can be held
Half == 65536

\* code units of the strings the model builds, and charCodeAt of each
CharCode(ch) ==
    CASE ch = " " -> 32
      [] ch = "," -> 44
      [] ch = "1" -> 49
      [] ch = "2" -> 50
      [] ch = "3" -> 51
      [] ch = "a" -> 97
      [] ch = "b" -> 98
      [] ch = "u00A0" -> 160
      [] ch = "uFFFF" -> 65535

\* the number hi * 2^16 + lo, for any integers hi and lo
Norm(hi, lo) == [hi |-> hi + (lo \div Half), lo |-> lo % Half]

Zero == Norm(0, 0)

\* ToInt32: the value modulo 2^32, in -2^31 .. 2^31 - 1
ToInt32(n) ==
    [hi |-> ((n.hi + (Half \div 2)) % Half) - (Half \div 2), lo |-> n.lo]

\* hash << 5, a 32-bit result
ShiftLeft5(n) == ToInt32(Norm(n.hi * 32, n.lo * 32))

\* a - b and a + c, exact
Minus(a, b) == Norm(a.hi - b.hi, a.lo - b.lo)
Plus(a, c) == Norm(a.hi, a.lo + c)

\* mutant: (hash << 5) + hash + char, a multiplication by 33
HashStepPlus(h, c) ==
    ToInt32(Plus(Norm(ShiftLeft5(h).hi + h.hi, ShiftLeft5(h).lo + h.lo), c))

\* hashString, the body of the loop:
\* hash = (hash << 5) - hash + char; hash = hash & hash
HashStep(h, c) == ToInt32(Plus(Minus(ShiftLeft5(h), h), c))

\* mutant: the absolute value taken as a 32-bit integer
MathAbsInt32(n) == IF n.hi < 0 THEN ToInt32(Norm(-n.hi, -n.lo)) ELSE n

\* Math.abs of a 32-bit integer, exact: Math.abs(-2^31) is 2^31
MathAbs(n) == IF n.hi < 0 THEN Norm(-n.hi, -n.lo) ELSE n

\* the digits of Number.prototype.toString(36)
Digits36 ==
    <<"0", "1", "2", "3", "4", "5", "6", "7", "8", "9", "a", "b",
      "c", "d", "e", "f", "g", "h", "i", "j", "k", "l", "m", "n",
      "o", "p", "q", "r", "s", "t", "u", "v", "w", "x", "y", "z">>

Radix == Len(Digits36)

\* quotient and remainder of n >= 0 by the radix, by long division
DivRadix(n) ==
    [hi |-> n.hi \div Radix,
     lo |-> ((n.hi % Radix) * Half + n.lo) \div Radix]
ModRadix(n) == ((n.hi % Radix) * Half + n.lo) % Radix

RECURSIVE DigitsOf(_)
DigitsOf(n) ==
    IF n.hi = 0 /\ n.lo < Radix
    THEN <<Digits36[n.lo + 1]>>
    ELSE DigitsOf(DivRadix(n)) \o <<Digits36[ModRadix(n) + 1]>>

\* n.toString(36) of an integer n: a minus sign before the digits of a
\* negative one
ToString36(n) ==
    IF n.hi < 0 THEN <<"-">> \o DigitsOf(Norm(-n.hi, -n.lo))
    ELSE DigitsOf(n)

\* hashString, the loop: the hash after the code units of str
RECURSIVE HashLoop(_)
HashLoop(str) ==
    IF str = <<>> THEN Zero
    ELSE HashStep(HashLoop(SubSeq(str, 1, Len(str) - 1)),
                  CharCode(str[Len(str)]))

\* hashString: Math.abs(hash).toString(36)
HashRender(h) == ToString36(MathAbs(h))

hashString(str) == HashRender(HashLoop(str))

\* ---------------------------------------------------------------- getClientIP
\* longest x-forwarded-for value the model builds
MaxHdrLen == 3

\* c.req.header(name) of a header the request does not carry
Undefined == <<"undefined">>

\* `if (v)` for a string or undefined
Truthy(v) == v # Undefined /\ v # <<>>

\* v || ""
OrEmpty(v) == IF v = Undefined THEN <<>> ELSE v

\* the strings of at most n code units over chars
Strings(chars, n) == UNION {[1..m -> chars] : m \in 0..n}

\* the code units String.prototype.trim removes; of these the HTTP parser
\* strips only the space (and the tab) from the ends of a header value
WhiteSpace == {" ", "u00A0"}

RECURSIVE TrimStart(_)
TrimStart(str) ==
    IF str # <<>> /\ str[1] \in WhiteSpace
    THEN TrimStart(SubSeq(str, 2, Len(str)))
    ELSE str

RECURSIVE TrimEnd(_)
TrimEnd(str) ==
    IF str # <<>> /\ str[Len(str)] \in WhiteSpace
    THEN TrimEnd(SubSeq(str, 1, Len(str) - 1))
    ELSE str

\* str.trim()
Trim(str) == TrimEnd(TrimStart(str))

\* str.split(",")[0]: what precedes the first comma
RECURSIVE FirstEntry(_)
FirstEntry(str) ==
    IF str = <<>> \/ str[1] = "," THEN <<>>
    ELSE <<str[1]>> \o FirstEntry(SubSeq(str, 2, Len(str)))

\* a header value as the server hands it over: no space at either end
Transportable(v) == v = <<>> \/ (v[1] # " " /\ v[Len(v)] # " ")

\* the values each header takes in the model
ForwardedValues ==
    {Undefined} \cup
    {v \in Strings({"1", ",", " ", "u00A0"}, MaxHdrLen) : Transportable(v)}
RealIPValues == {Undefined, <<>>, <<"2">>}
CfIPValues == {Undefined, <<>>, <<"3">>}
UserAgentValues == {Undefined, <<>>, <<"a">>, <<"a", "b">>}
AcceptLanguageValues == {Undefined, <<>>, <<"b">>}

\* values of process.env.TRUST_PROXY
TrustProxyValues == {"true", "1", "undefined"}

\* mutant: any value of TRUST_PROXY enables proxy trust
TrustProxySet(env) == env # "undefined"

\* getClientIP: process.env.TRUST_PROXY === "true"
TrustProxy(env) == env = "true"

\* the marker of a synthetic fingerprint
Unknown == <<"u", "n", "k", "n", "o", "w", "n", "-">>

\* getClientIP: `unknown-${hashString(userAgent + acceptLanguage)}`
Fingerprint(userAgent, acceptLanguage) ==
    Unknown \o hashString(OrEmpty(userAgent) \o OrEmpty(acceptLanguage))

getClientIP(env, forwarded, realIP, cfIP, userAgent, acceptLanguage) ==
    IF TrustProxy(env) /\ Truthy(forwarded) /\ Truthy(FirstEntry(forwarded))
    THEN Trim(FirstEntry(forwarded))
    ELSE IF TrustProxy(env) /\ Truthy(realIP) THEN realIP
    ELSE IF TrustProxy(env) /\ Truthy(cfIP) THEN cfIP
    ELSE Fingerprint(userAgent, acceptLanguage)

\* one call of getClientIP on a request with the given headers
GetClientIP ==
    /\ call = NoCall
    /\ \E env \in TrustProxyValues, forwarded \in ForwardedValues,
          realIP \in RealIPValues, cfIP \in CfIPValues,
          userAgent \in UserAgentValues,
          acceptLanguage \in AcceptLanguageValues :
        /\ call' = [fn |-> "getClientIP", env |-> env,
                    forwarded |-> forwarded, realIP |-> realIP,
                    cfIP |-> cfIP, userAgent |-> userAgent,
                    acceptLanguage |-> acceptLanguage]
        /\ result' = [fn |-> "getClientIP",
                      value |-> getClientIP(env, forwarded, realIP, cfIP,
                                            userAgent, acceptLanguage)]
    /\ UNCHANGED <<db, nodeEnv, redisUrl, redis, status, rateLimitStore, store,
                   now, pc, req, resp, trace, hist>>

InitIP == Init /\ nodeEnv = "development" /\ redisUrl = FALSE

NextIP == GetClientIP

SpecIP == InitIP /\ [][NextIP]_vars

\* getClientIP has returned for a request, with proxy trust on
Resolved == call.fn = "getClientIP"

\* the first non-empty of the three address hints, <<>> when there is none
FirstHint(forwarded, realIP, cfIP) ==
    IF Trim(FirstEntry(OrEmpty(forwarded))) # <<>>
    THEN Trim(FirstEntry(OrEmpty(forwarded)))
    ELSE IF OrEmpty(realIP) # <<>> THEN realIP
    ELSE OrEmpty(cfIP)

\* C18: with proxy trust enabled the key is the first non-empty of the
\* trimmed first entry of x-forwarded-for, x-real-ip and cf-connecting-ip,
\* the fingerprint only when none is non-empty, and never the empty string
C18_FirstNonEmptyHint ==
    (Resolved /\ TrustProxy(call.env)) =>
        LET hint == FirstHint(call.forwarded, call.realIP, call.cfIP)
        IN  /\ result.value # <<>>
            /\ hint # <<>> => result.value = hint
            /\ hint = <<>> =>
                result.value = Fingerprint(call.userAgent, call.acceptLanguage)

\* C19: with proxy trust disabled the key is "unknown-" followed by the
\* hash of User-Agent + Accept-Language, whatever the x-forwarded-for,
\* x-real-ip and cf-connecting-ip headers of the request are
C19_FingerprintWithoutTrust ==
    (Resolved /\ call.env # "true") =>
        /\ result.value =
             Unknown \o
             hashString(OrEmpty(call.userAgent) \o OrEmpty(call.acceptLanguage))
        /\ \A forwarded \in {Undefined, <<"1">>}, realIP \in RealIPValues,
              cfIP \in CfIPValues :
             getClientIP(call.env, forwarded, realIP, cfIP,
                         call.userAgent, call.acceptLanguage) = result.value

\* TRUST_PROXY is set, but not to "true"; the request carries all three
\* proxy headers and is keyed by the fingerprint of "a" + "b"
C19_Witness ==
    /\ Resolved /\ call.env = "1"
    /\ call.forwarded = <<"1">> /\ call.realIP = <<"2">>
    /\ call.cfIP = <<"3">>
    /\ call.userAgent = <<"a">> /\ call.acceptLanguage = <<"b">>
    /\ result.value = Unknown \o <<"2", "e", "9">>

\* ---------------------------------------------------------------- hashString, called
\* longest string the model hashes
MaxStrLen == 5

\* the code units of the strings hashed
HashChars == {"a", "b", "uFFFF"}

\* values of `hash` at the head of the loop body: every high half of a
\* signed 32-bit integer with the low halves that carry least and most
Int32Hi == -(Half \div 2) .. (Half \div 2) - 1
Int32Lo == {0, 2048, Half - 1}

\* code units met by the loop body
StepCodes == {0, Half - 1}

\* hashString(str)
HashString ==
    /\ call = NoCall
    /\ \E str \in Strings(HashChars, MaxStrLen) :
        /\ call' = [fn |-> "hashString", str |-> str]
        /\ result' = [fn |-> "hashString", hash |-> HashLoop(str),
                      value |-> hashString(str)]
    /\ UNCHANGED <<db, nodeEnv, redisUrl, redis, status, rateLimitStore, store,
                   now, pc, req, resp, trace, hist>>

\* one turn of the loop, on the hash a longer string has got to
HashLoopBody ==
    /\ call = NoCall
    /\ \E hi \in Int32Hi, lo \in Int32Lo, c \in StepCodes :
        LET h == [hi |-> hi, lo |-> lo]
        IN  /\ call' = [fn |-> "loop", hash |-> h, char |-> c]
            /\ result' = [fn |-> "loop", hash |-> HashStep(h, c)]
    /\ UNCHANGED <<db, nodeEnv, redisUrl, redis, status, rateLimitStore, store,
                   now, pc, req, resp, trace, hist>>

\* the return statement, on the hash a longer string has got to
HashReturn ==
    /\ call = NoCall
    /\ \E hi \in Int32Hi, lo \in Int32Lo :
        LET h == [hi |-> hi, lo |-> lo]
        IN  /\ call' = [fn |-> "return", hash |-> h]
            /\ result' = [fn |-> "return", value |-> HashRender(h)]
    /\ UNCHANGED <<db, nodeEnv, redisUrl, redis, status, rateLimitStore, store,
                   now, pc, req, resp, trace, hist>>

InitHash == Init /\ nodeEnv = "development" /\ redisUrl = FALSE

NextHash == HashString \/ HashLoopBody \/ HashReturn

SpecHash == InitHash /\ [][NextHash]_vars

\* h * 31 + c modulo 2^32, as a signed 32-bit integer
Times31Plus(h, c) == ToInt32(Norm(h.hi * 31, h.lo * 31 + c))

\* the hash of the claim: 0, then h * 31 + c for each code unit in order
RECURSIVE RollingHash(_)
RollingHash(str) ==
    IF str = <<>> THEN Zero
    ELSE Times31Plus(RollingHash(SubSeq(str, 1, Len(str) - 1)),
                     CharCode(str[Len(str)]))

\* the base-36 digits of an integer 0 <= v < 2^31
RECURSIVE Base36(_)
Base36(v) ==
    IF v < 36 THEN <<Digits36[v + 1]>>
    ELSE Base36(v \div 36) \o <<Digits36[(v % 36) + 1]>>

\* the base-36 rendering of |h| for a signed 32-bit h; |-2^31| = 2^31 is
\* zik0zk, one more than 2^31 - 1 = zik0zj
Base36OfAbs(h) ==
    IF h.hi = -(Half \div 2) /\ h.lo = 0
    THEN <<"z", "i", "k", "0", "z", "k">>
    ELSE IF h.hi < 0 THEN Base36(-(h.hi * Half + h.lo))
    ELSE Base36(h.hi * Half + h.lo)

\* C20: hashString(str) is the base-36 rendering of |h|, h the rolling hash
\* h * 31 + c wrapped to 32 bits; the shift form of the loop body equals
\* h * 31 + c modulo 2^32 for a signed 32-bit h; the text returned has no
\* minus sign, also for h = -2^31
C20_RollingHashBase36 ==
    /\ call.fn = "hashString" =>
        /\ result.hash = RollingHash(call.str)
        /\ result.value = Base36OfAbs(RollingHash(call.str))
        /\ \A i \in 1..Len(result.value) : result.value[i] # "-"
    /\ call.fn = "loop" =>
        result.hash = Times31Plus(call.hash, call.char)
    /\ call.fn = "return" =>
        /\ result.value = Base36OfAbs(call.hash)
        /\ \A i \in 1..Len(result.value) : result.value[i] # "-"

\* five code units 0xFFFF take the hash past 2^31: it wraps to
\* -1884131265 and the text returned is that of 1884131265
C20_Witness ==
    /\ call.fn = "hashString"
    /\ call.str = <<"uFFFF", "uFFFF", "uFFFF", "uFFFF", "uFFFF">>
    /\ result.hash = [hi |-> -28750, lo |-> 28735]
    /\ result.value = <<"v", "5", "r", "g", "z", "l">>

\* ---------------------------------------------------------------- preconfigured limiters
LimiterNames == {"general", "auth", "upload", "write", "strict", "email"}

\* mutant: no environment counts as development
IsDevelopmentNever(env) == FALSE

\* process.env.NODE_ENV === "development"
IsDevelopment(env) == env = "development"

\* the options of the six exported limiters, as evaluated at module load
Preconfigured(env) ==
    [general |-> [limit |-> 100, windowMs |-> 60 * 1000],
     auth    |-> [limit |-> IF IsDevelopment(env) THEN 50 ELSE 30,
                  windowMs |-> IF IsDevelopment(env) THEN 60 * 1000
                               ELSE 5 * 60 * 1000],
     upload  |-> [limit |-> 20, windowMs |-> 60 * 60 * 1000],
     write   |-> [limit |-> 30, windowMs |-> 60 * 1000],
     strict  |-> [limit |-> 5, windowMs |-> 60 * 1000],
     email   |-> [limit |-> IF IsDevelopment(env) THEN 10 ELSE 5,
                  windowMs |-> IF IsDevelopment(env) THEN 60 * 1000
                               ELSE 15 * 60 * 1000]]

\* one more request of one client through the limiter `name`, the only
\* limiter mounted, decided by the table (the program as shipped has no
\* other mode); the requests of a behaviour come within one millisecond
\* and stop with the first rejection
LimiterRequest(name) ==
    /\ call.fn \in {"none", "limiter"}
    /\ call.fn = "limiter" => call.name = name /\ result.resp.status = "next"
    /\ LET policy == Preconfigured(nodeEnv)[name]
           before == IF call.fn = "none" THEN Absent ELSE result.entry
           entry == InMemoryCount(before, now, policy.windowMs)
       IN  /\ call' = [fn |-> "limiter", name |-> name]
           /\ result' = [fn |-> "limiter", entry |-> entry,
                         resp |-> InMemoryRespond(entry, now, policy.limit)]
    /\ UNCHANGED <<db, nodeEnv, redisUrl, redis, status, rateLimitStore, store,
                   now, pc, req, resp, trace, hist>>

InitLimiters == Init /\ redisUrl = FALSE

NextLimiters == \E name \in LimiterNames : LimiterRequest(name)

SpecLimiters == InitLimiters /\ [][NextLimiters]_vars

\* the documented policies: requests per window, the window in minutes
Documented(env) ==
    [general |-> <<100, 1>>,
     auth    |-> IF env = "development" THEN <<50, 1>> ELSE <<30, 5>>,
     upload  |-> <<20, 60>>,
     write   |-> <<30, 1>>,
     strict  |-> <<5, 1>>,
     email   |-> IF env = "development" THEN <<10, 1>> ELSE <<5, 15>>]

\* C21: each limiter enforces its documented policy: the request counted
\* n is rejected iff n is past the documented limit of the environment,
\* and the window it reports is the documented one
C21_PoliciesByEnvironment ==
    call.fn = "limiter" =>
        LET doc == Documented(nodeEnv)[call.name]
        IN  /\ result.resp.hLimit = doc[1]
            /\ (result.resp.status = "429") <=> (result.entry.count > doc[1])
            /\ result.entry.resetTime - now = doc[2] * 60 * MsPerSecond
            /\ result.resp.hReset = doc[2] * 60

\* the 31st request through authRateLimit in a production window is a 429
C21_Witness ==
    /\ nodeEnv = "production"
    /\ call.fn = "limiter" /\ call.name = "auth"
    /\ result.entry.count = 31
    /\ result.resp.status = "429"

\* ---------------------------------------------------------------- requireAuth / requireRole
\* a user is known by its role; "none" is a user record without a role
Roles == {"ADMIN", "AUTHOR", "READER", "none"}

\* what authDep.api.getSession does: throws, resolves to null, or resolves
\* to a session of a user
SessionOutcomes ==
    {[kind |-> "throws", role |-> "-"], [kind |-> "null", role |-> "-"]} \cup
    {[kind |-> "session", role |-> r] : r \in Roles}

\* the routes: requireAuth then the handler, or requireAuth,
\* requireRole(...allowedRoles) and the handler
Routes ==
    {[guarded |-> FALSE, allowedRoles |-> {}]} \cup
    {[guarded |-> TRUE, allowedRoles |-> R] :
        R \in SUBSET {"ADMIN", "AUTHOR", "READER"}}

\* 401 and 403 of the two middlewares
Unauthorized401 == [status |-> "401", error |-> "Unauthorized"]
Forbidden403 == [status |-> "403", error |-> "Forbidden"]

\* mutant: the role test lets every role through
RoleAllowedAlways(allowedRoles, userRole) == TRUE

\* requireRole: allowedRoles.includes(userRole)
RoleAllowed(allowedRoles, userRole) == userRole \in allowedRoles

\* a request reaches a route: requireAuth calls getSession and awaits it
AuthRequest ==
    /\ call = NoCall
    /\ \E route \in Routes :
        /\ call' = [fn |-> "auth", route |-> route]
        /\ result' = [fn |-> "auth", at |-> "getSession",
                      got |-> [kind |-> "pending", role |-> "-"],
                      user |-> "unset", session |-> "unset",
                      roleRan |-> FALSE, handlerRan |-> FALSE,
                      sawUser |-> "unset", sawSession |-> "unset",
                      response |-> [status |-> "none", error |-> "none"]]
    /\ UNCHANGED <<db, nodeEnv, redisUrl, redis, status, rateLimitStore, store,
                   now, pc, req, resp, trace, hist>>

\* requireAuth after the await: 401 when getSession threw or gave no
\* session, else user and session are set on the context and next() runs
RequireAuth ==
    /\ call.fn = "auth" /\ result.at = "getSession"
    /\ \E got \in SessionOutcomes :
        result' =
            IF got.kind \in {"throws", "null"}
            THEN [result EXCEPT !.got = got, !.at = "done",
                                !.response = Unauthorized401]
            ELSE [result EXCEPT !.got = got,
                                !.user = got.role, !.session = "set",
                                !.at = IF call.route.guarded
                                       THEN "requireRole" ELSE "handler"]
    /\ UNCHANGED <<db, call, nodeEnv, redisUrl, redis, status, rateLimitStore,
                   store, now, pc, req, resp, trace, hist>>

\* the middleware requireRole(...allowedRoles) returns
RequireRole ==
    /\ call.fn = "auth" /\ result.at = "requireRole"
    /\ result' =
        IF result.user = "unset"
        THEN [result EXCEPT !.roleRan = TRUE, !.at = "done",
                            !.response = Unauthorized401]
        ELSE IF ~RoleAllowed(call.route.allowedRoles, result.user)
        THEN [result EXCEPT !.roleRan = TRUE, !.at = "done",
                            !.response = Forbidden403]
        ELSE [result EXCEPT !.roleRan = TRUE, !.at = "handler"]
    /\ UNCHANGED <<db, call, nodeEnv, redisUrl, redis, status, rateLimitStore,
                   store, now, pc, req, resp, trace, hist>>

\* the route's handler: c.get("user"), c.get("session"), a response
Handler ==
    /\ call.fn = "auth" /\ result.at = "handler"
    /\ result' = [result EXCEPT !.handlerRan = TRUE, !.at = "done",
                                !.sawUser = result.user,
                                !.sawSession = result.session,
                                !.response = [status |-> "200",
                                              error |-> "none"]]
    /\ UNCHANGED <<db, call, nodeEnv, redisUrl, redis, status, rateLimitStore,
                   store, now, pc, req, resp, trace, hist>>

InitAuth == Init /\ redisUrl = FALSE

NextAuth == AuthRequest \/ RequireAuth \/ RequireRole \/ Handler

SpecAuth == InitAuth /\ [][NextAuth]_vars

\* C22: the handler has run only if getSession gave a session (and, behind
\* requireRole, the user's role is an allowed one), and it then found user
\* and session on the context; without a session the answer is 401 and
\* neither requireRole nor the handler has run; with a role that is not
\* allowed the answer is 403 and the handler has not run
C22_HandlerOnlyWhenAuthorized ==
    call.fn = "auth" =>
        /\ result.handlerRan =>
            /\ result.got.kind = "session"
            /\ call.route.guarded =>
                    result.got.role \in call.route.allowedRoles
            /\ result.sawUser = result.got.role
            /\ result.sawSession = "set"
        /\ result.got.kind \in {"throws", "null"} =>
            /\ result.response.status = "401"
            /\ ~result.roleRan /\ ~result.handlerRan
        /\ (result.at = "done" /\ result.got.kind = "session"
                /\ call.route.guarded
                /\ result.got.role \notin call.route.allowedRoles) =>
            result.response.status = "403" /\ ~result.handlerRan

\* a reader was turned away with 403 from a route for admins and authors
C22_Witness ==
    /\ call.fn = "auth" /\ call.route.guarded
    /\ call.route.allowedRoles = {"ADMIN", "AUTHOR"}
    /\ result.got = [kind |-> "session", role |-> "READER"]
    /\ result.response.status = "403" /\ ~result.handlerRan

\* ---------------------------------------------------------------- comments route
\* most comments the post of the model collects
MaxComments == 2

\* the author of the post
PostAuthor == "u1"

\* who sends the request: c.get("user"), and no user for a request that
\* optionalAuth let through without a session
Callers ==
    {[id |-> "u1", role |-> "AUTHOR"], [id |-> "u2", role |-> "READER"],
     [id |-> "u3", role |-> "ADMIN"], [id |-> "u4", role |-> "AUTHOR"],
     [id |-> "undefined", role |-> "undefined"]}

\* POST /posts/:postId stands behind requireAuth
Authenticated(caller) == caller.id # "undefined"

PostStatuses == {"DRAFT", "PUBLISHED", "ARCHIVED"}

\* mutant: every post that exists counts as published
NotPublishedNever(postStatus) == FALSE

\* post.status !== "PUBLISHED"
NotPublished(postStatus) == postStatus # "PUBLISHED"

\* GET /posts/:postId: !isAuthor && !isAdmin
Stranger(caller, authorId) == ~(caller.id = authorId) /\ ~(caller.role = "ADMIN")

IdleComments ==
    [fn |-> "comments", method |-> "-", caller |-> [id |-> "-", role |-> "-"],
     at |-> "done", seen |-> "-", live |-> "-", status |-> "none",
     error |-> "none", created |-> FALSE, before |-> 0, returned |-> -1]

\* the posts route, for the author: the post is created or its status is
\* changed, at any moment
WritePost ==
    /\ \E st \in PostStatuses \ {db.status} :
        db' = [db EXCEPT !.status = st, !.authorId = PostAuthor]
    /\ UNCHANGED <<call, result, nodeEnv, redisUrl, redis, status,
                   rateLimitStore, store, now, pc, req, resp, trace, hist>>

\* a request reaches GET or POST /posts/:postId and awaits
\* db.post.findUnique
CommentsRequest ==
    /\ call = NoCall \/ (call.fn = "comments" /\ call.at = "done")
    /\ \E method \in {"GET", "POST"}, caller \in Callers :
        /\ method = "POST" => Authenticated(caller)
        /\ call' = [IdleComments EXCEPT !.method = method, !.caller = caller,
                                        !.at = "find",
                                        !.before = db.comments]
    /\ UNCHANGED <<db, result, nodeEnv, redisUrl, redis, status,
                   rateLimitStore, store, now, pc, req, resp, trace, hist>>

\* findUnique returns and the handler runs up to its next await or its
\* response
FindPost ==
    /\ call.fn = "comments" /\ call.at = "find"
    /\ LET c == [call EXCEPT !.seen = db.status, !.live = db.status]
           notFound == [c EXCEPT !.at = "done", !.status = "404",
                                 !.error = "Post not found"]
       IN  call' =
            IF db.status = "absent" THEN notFound
            ELSE IF call.method = "POST"
            THEN IF NotPublished(db.status)
                 THEN [c EXCEPT !.at = "done", !.status = "400",
                          !.error = "Cannot comment on unpublished posts"]
                 ELSE [c EXCEPT !.at = "create"]
            ELSE IF NotPublished(db.status)
                        /\ Stranger(call.caller, db.authorId)
                 THEN notFound
                 ELSE [c EXCEPT !.at = "list"]
    /\ UNCHANGED <<db, result, nodeEnv, redisUrl, redis, status,
                   rateLimitStore, store, now, pc, req, resp, trace, hist>>

\* POST: db.comment.create returns, 201
CreateComment ==
    /\ call.fn = "comments" /\ call.at = "create"
    /\ db.comments < MaxComments
    /\ db' = [db EXCEPT !.comments = @ + 1]
    /\ call' = [call EXCEPT !.at = "done", !.status = "201",
                            !.created = TRUE, !.live = db.status]
    /\ UNCHANGED <<result, nodeEnv, redisUrl, redis, status,
                   rateLimitStore, store, now, pc, req, resp, trace, hist>>

\* GET: db.comment.findMany returns, 200 with the comments
ListComments ==
    /\ call.fn = "comments" /\ call.at = "list"
    /\ call' = [call EXCEPT !.at = "done", !.status = "200",
                            !.returned = db.comments, !.live = db.status]
    /\ UNCHANGED <<db, result, nodeEnv, redisUrl, redis, status,
                   rateLimitStore, store, now, pc, req, resp, trace, hist>>

InitComments == Init /\ nodeEnv = "development" /\ redisUrl = FALSE

NextComments ==
    \/ WritePost
    \/ CommentsRequest
    \/ FindPost
    \/ CreateComment
    \/ ListComments

SpecComments == InitComments /\ [][NextComments]_vars

\* an answered request of the comments route
Commented == call.fn = "comments" /\ call.at = "done" /\ call.method # "-"

\* what the claim says of POST: a comment is created only for a post seen
\* PUBLISHED by the check; 404 for a missing post, 400 for another status,
\* and then no comment is created
PostClause ==
    (Commented /\ call.method = "POST") =>
        /\ call.created => call.seen = "PUBLISHED"
        /\ call.seen = "absent" => call.status = "404" /\ ~call.created
        /\ call.seen \in PostStatuses \ {"PUBLISHED"} =>
                call.status = "400" /\ ~call.created
        /\ ~call.created => db.comments = call.before

\* what the claim says of GET, for the status `st` of the post: comments of
\* a post that is not PUBLISHED go to its author or an admin only, every
\* other caller gets the 404 of a missing post
GetClause(st) ==
    (Commented /\ call.method = "GET" /\ st \in PostStatuses \ {"PUBLISHED"}) =>
        /\ call.returned # -1 =>
                (call.caller.id = PostAuthor \/ call.caller.role = "ADMIN")
        /\ (call.caller.id # PostAuthor /\ call.caller.role # "ADMIN") =>
                call.status = "404" /\ call.error = "Post not found"

RedisResetSecondsLocal(localNow, ttl, windowMs) ==
    Ceil(windowMs - (localNow % windowMs), MsPerSecond)

\* rateLimiter, lines 82 and 85, with `now` the Date.now() of line 60:
\* resetTime = now + (ttl > 0 ? ttl : windowMs);
\* resetSeconds = Math.ceil((resetTime - now) / 1000)
RedisResetSeconds(localNow, ttl, windowMs) ==
    LET resetTime == localNow + RedisResetMs(ttl, windowMs)
    IN  Ceil(resetTime - localNow, MsPerSecond)

\* what PTTL may answer: -2 (no key), -1 (no expiry), 0, and positive
\* values about the whole seconds
PttlAnswers == {-2, -1, 0, 1, 999, 1000, 1001, 59999, 60000}

\* windows of the preconfigured limiters
ResetWindows == {60 * 1000, 5 * 60 * 1000}

\* Date.now() of an instance: clocks that disagree
LocalClocks == {0, 7, 1000000789}

\* two instances, each with its own clock, read the same TTL for a key
\* and compute the reset value of their response
ReadSameTtl ==
    /\ call = NoCall
    /\ \E ttl \in PttlAnswers, windowMs \in ResetWindows,
          clocks \in [Instances -> LocalClocks] :
        /\ call' = [fn |-> "reset", ttl |-> ttl, windowMs |-> windowMs,
                    clocks |-> clocks]
        /\ result' = [fn |-> "reset",
                      resetSeconds |->
                        [i \in Instances |->
                            RedisResetSeconds(clocks[i], ttl, windowMs)]]
    /\ UNCHANGED <<db, nodeEnv, redisUrl, redis, status, rateLimitStore,
                   store, now, pc, req, resp, trace, hist>>

InitReset == Init /\ nodeEnv = "development" /\ redisUrl = TRUE

NextReset == ReadSameTtl

SpecReset == InitReset /\ [][NextReset]_vars

\* C24: the reset value of the Redis branch is ceil(ttl / 1000) for a
\* positive TTL and ceil(windowMs / 1000) otherwise, on every instance,
\* whatever its clock says
C24_ResetFromStoreTtl ==
    call.fn = "reset" =>
        \A i \in Instances :
            result.resetSeconds[i] =
                IF call.ttl > 0
                THEN (call.ttl + MsPerSecond - 1) \div MsPerSecond
                ELSE call.windowMs \div MsPerSecond

\* two instances whose clocks are far apart read a TTL of 59999 ms and
\* both report 60 seconds
C24_Witness ==
    /\ call.fn = "reset" /\ call.ttl = 59999
    /\ call.clocks["i1"] = 0 /\ call.clocks["i2"] = 1000000789
    /\ result.resetSeconds["i1"] = 60 /\ result.resetSeconds["i2"] = 60

\* ---------------------------------------------------------------- one run of the sweep
\* the keys of a table with more than one client
SweepKeys == {"a", "b"}

\* the entries a table may hold when the timer fires
SweptEntries ==
    {Absent} \cup
    {[count |-> n, resetTime |-> t] : n \in 1..(Limit + 1), t \in 0..MaxTime}

\* the timer fires at time t on a table
RunSweep ==
    /\ call = NoCall
    /\ \E tbl \in [SweepKeys -> SweptEntries], t \in 0..MaxTime :
        /\ call' = [fn |-> "sweep", table |-> tbl, now |-> t]
        /\ result' = [fn |-> "sweep", table |-> SweepTable(tbl, t)]
    /\ UNCHANGED <<db, nodeEnv, redisUrl, redis, status, rateLimitStore,
                   store, now, pc, req, resp, trace, hist>>

InitSweep == Init /\ nodeEnv = "development" /\ redisUrl = FALSE

NextSweep == RunSweep

SpecSweep == InitSweep /\ [][NextSweep]_vars

\* C25: after a run of the sweep no entry with resetTime in the past
\* remains, and every other entry is there with its count and resetTime
C25_SweepRemovesExpiredOnly ==
    call.fn = "sweep" =>
        \A k \in SweepKeys :
            LET before == call.table[k]
                after == result.table[k]
            IN  /\ (before # Absent /\ before.resetTime < call.now) =>
                        after = Absent
                /\ ~(before # Absent /\ before.resetTime < call.now) =>
                        after = before
                /\ after # Absent => after.resetTime >= call.now

\* a sweep at time 2 removed the entry that ended at 1 and kept, as it
\* was, the entry that ends at 2
C25_Witness ==
    /\ call.fn = "sweep" /\ call.now = 2
    /\ call.table["a"] = [count |-> 1, resetTime |-> 1]
    /\ call.table["b"] = [count |-> 2, resetTime |-> 2]
    /\ result.table["a"] = Absent
    /\ result.table["b"] = [count |-> 2, resetTime |-> 2]

\* ---------------------------------------------------------------- requests of one process
\* the process whose fallback table the requests below share
TableInst == "i1"

\* mutant: a request may lose the thread between the get and the set
YieldsAnywhere(at) == TRUE

\* where a request lets other callbacks of its process run.
\* handleInMemoryRateLimit is a plain function without await, so a request
\* that has read its entry ("table") runs on to the set; only requests
\* that have not started or have answered leave the thread to others
Yields(at) == at # "table"

\* no other request of the process is in the middle of its handler
ThreadFree(p) == \A q \in Procs \ {p} : Yields(pc[q])

\* the observed counts of the window that is being counted
NoneSeen == [fn |-> "table", end |-> -1, seen |-> <<>>]

\* handleInMemoryRateLimit, lines 144-145: Date.now() and
\* rateLimitStore.get(key).  The history counts the request in the
\* reference window of its arrival
TableGet(p, k) ==
    LET i == TableInst
        open == hist.hitsM[i][k] > 0 /\ now <= hist.endM[i][k]
        end == IF open THEN hist.endM[i][k] ELSE now + WindowMs
    IN  /\ pc[p] \in {"idle", "done"}
        /\ hist.nreq < MaxReq
        /\ ThreadFree(p)
        /\ req' = [req EXCEPT ![p] =
                      [key |-> k, currentCount |-> 0, now |-> now,
                       entry |-> rateLimitStore[i][k], end |-> end]]
        /\ hist' = [hist EXCEPT !.nreq = @ + 1,
                                !.hitsM[i][k] = IF open THEN @ + 1 ELSE 1,
                                !.endM[i][k] = end]
        /\ pc' = [pc EXCEPT ![p] = "table"]
        /\ resp' = [resp EXCEPT ![p] = NoResponse]
        /\ UNCHANGED <<db, call, result, nodeEnv, redisUrl, redis, status,
                       rateLimitStore, store, now, trace>>

\* handleInMemoryRateLimit, lines 148-181: reset or keep, count++,
\* rateLimitStore.set(key, entry), headers and answer
TableSet(p) ==
    LET i == TableInst
        k == req[p].key
        entry == InMemoryCount(req[p].entry, req[p].now, WindowMs)
        sofar == IF result # NoCall /\ result.end = req[p].end
                 THEN result.seen ELSE <<>>
    IN  /\ pc[p] = "table"
        /\ ThreadFree(p)
        /\ rateLimitStore' = [rateLimitStore EXCEPT ![i][k] = entry]
        /\ resp' = [resp EXCEPT ![p] = InMemoryRespond(entry, req[p].now, Limit)]
        /\ result' = [NoneSeen EXCEPT !.end = req[p].end,
                                      !.seen = Append(sofar, entry.count)]
        /\ pc' = [pc EXCEPT ![p] = "done"]
        /\ UNCHANGED <<db, call, nodeEnv, redisUrl, redis, status, store,
                       now, req, trace, hist>>

\* the timer callback runs when no request holds the thread
TableSweep ==
    /\ \A q \in Procs : Yields(pc[q])
    /\ Sweep(TableInst)

InitTable == Init /\ nodeEnv = "development" /\ redisUrl = FALSE

NextTable ==
    \/ \E p \in Procs, k \in Keys : TableGet(p, k)
    \/ \E p \in Procs : TableSet(p)
    \/ TableSweep
    \/ Tick

SpecTable == InitTable /\ [][NextTable]_vars

\* C26: when the n requests that arrived on a key inside its open window
\* have run, the entry's count is n and the requests observed the counts
\* 1..n, one each, whatever the order of the requests and the sweeps
C26_NoLostIncrement ==
    \A k \in Keys :
        LET n == hist.hitsM[TableInst][k]
        IN  (/\ n > 0
             /\ now <= hist.endM[TableInst][k]
             /\ \A q \in Procs : pc[q] # "table") =>
                /\ rateLimitStore[TableInst][k].count = n
                /\ rateLimitStore[TableInst][k].resetTime =
                       hist.endM[TableInst][k]
                /\ result # NoCall
                /\ result.end = hist.endM[TableInst][k]
                /\ Len(result.seen) = n
                /\ {result.seen[j] : j \in 1..n} = 1..n

\* a later window of a key has taken Limit + 2 requests, the window
\* before it one
C26_Witness ==
    \E k \in Keys :
        /\ hist.hitsM[TableInst][k] = Limit + 2
        /\ hist.nreq = MaxReq
        /\ \A q \in Procs : pc[q] = "done"
        /\ rateLimitStore[TableInst][k].count = Limit + 2
        /\ result # NoCall /\ Len(result.seen) = Limit + 2
        /\ now <= hist.endM[TableInst][k]

\* ---------------------------------------------------------------- the table without a sweep
\* the fallback tables as they would be had the timer never fired
UnsweptTable ==
    IF call = NoCall
    THEN [i \in Instances |-> [k \in Keys |-> Absent]]
    ELSE call.table

\* a request in fallback mode, answered from the table of its process;
\* beside it the same request is answered from the table that is never
\* swept, and both the entries found and the second answer are kept
UnsweptRequest(p, k) ==
    LET i == InstOf(p)
        found == UnsweptTable[i][k]
        entry == InMemoryCount(found, now, WindowMs)
    IN  /\ pc[p] \in {"idle", "done"}
        /\ hist.nreq < MaxReq
        /\ handleInMemoryRateLimit(p, k, IdleTrace,
                                   [hist EXCEPT !.nreq = @ + 1])
        /\ req' = [req EXCEPT ![p] = [key |-> k, currentCount |-> 0]]
        /\ call' = [fn |-> "unswept",
                    table |-> [UnsweptTable EXCEPT ![i][k] = entry]]
        /\ result' = [fn |-> "unswept", by |-> p,
                      found |-> rateLimitStore[i][k],
                      unswept |-> found,
                      resp |-> InMemoryRespond(entry, now, Limit)]
        /\ UNCHANGED <<db, nodeEnv, redisUrl, redis, status, store, now>>

InitUnswept == Init /\ redisUrl = FALSE

NextUnswept ==
    \/ \E p \in Procs, k \in Keys : UnsweptRequest(p, k)
    \/ \E i \in Instances : Sweep(i)
    \/ Tick

SpecUnswept == InitUnswept /\ [][NextUnswept]_vars

\* C27: whatever sweeps ran before it, a request in fallback mode gets the
\* decision and the Limit, Remaining and Reset headers it would get from
\* the table that was never swept; an entry the sweep has removed is one
\* the next request on its key resets
C27_SweepInvisible ==
    /\ result # NoCall =>
          LET with == resp[result.by]
              without == result.resp
          IN  /\ with.status = without.status
              /\ with.hLimit = without.hLimit
              /\ with.hRemaining = without.hRemaining
              /\ with.hReset = without.hReset
              /\ with = without
    /\ \A i \in Instances, k \in Keys :
          \/ rateLimitStore[i][k] = UnsweptTable[i][k]
          \/ /\ rateLimitStore[i][k] = Absent
             /\ WindowExpired(UnsweptTable[i][k], now)

\* a request found its entry swept away where the unswept table still
\* held a full window, and was let through by both
C27_Witness ==
    /\ result # NoCall
    /\ result.found = Absent
    /\ result.unswept # Absent /\ result.unswept.count > Limit
    /\ resp[result.by].status = "next"
    /\ result.resp.status = "next"

\* ---------------------------------------------------------------- the limiters side by side
\* number of requests the client sends in one behaviour
MaxBurst == 6

\* how many requests of the client each limiter has taken
NoneTaken == [name \in LimiterNames |-> 0]

\* one more request of one client through the limiter `name`, all six
\* limiters being mounted.  None of them is given a keyGenerator, so each
\* builds the key "ratelimit:" + getClientIP(c) and reads and writes the
\* one entry of that key in rateLimitStore.  The requests of a behaviour
\* come within one millisecond and stop with the first rejection;
\* call.taken counts, per limiter, the requests that went through it
MountedRequest(name) ==
    /\ call.fn \in {"none", "mounted"}
    /\ call.fn = "mounted" =>
          /\ result.resp.status = "next"
          /\ result.entry.count < MaxBurst
    /\ LET policy == Preconfigured(nodeEnv)[name]
           taken == IF call.fn = "none" THEN NoneTaken ELSE call.taken
           before == IF call.fn = "none" THEN Absent ELSE result.entry
           entry == InMemoryCount(before, now, policy.windowMs)
       IN  /\ call' = [fn |-> "mounted", name |-> name,
                       taken |-> [taken EXCEPT ![name] = @ + 1]]
           /\ result' = [fn |-> "mounted", entry |-> entry,
                         resp |-> InMemoryRespond(entry, now, policy.limit)]
    /\ UNCHANGED <<db, nodeEnv, redisUrl, redis, status, rateLimitStore, store,
                   now, pc, req, resp, trace, hist>>

InitMounted == Init /\ redisUrl = FALSE

NextMounted == \E name \in LimiterNames : MountedRequest(name)

SpecMounted == InitMounted /\ [][NextMounted]_vars

\* C28: a limiter counts, for a client, the requests that went through it
\* and no others: the count it reaches, the window end it reports and its
\* decision are those of its own policy applied to its own requests
C28_LimitersIndependent ==
    call.fn = "mounted" =>
        LET policy == Preconfigured(nodeEnv)[call.name]
            own == call.taken[call.name]
        IN  /\ result.entry.count = own
            /\ result.entry.resetTime = now + policy.windowMs
            /\ (result.resp.status = "429") <=> (own > policy.limit)

\* ---------------------------------------------------------------- a client that comes back
\* the commands of the try block, in the order they are awaited
NoFailure == "none"
FailurePoints == {NoFailure, "incr", "pexpire", "pttl"}

\* what is remembered of a client's requests: how many were sent, how many
\* met a failing command, the command that failed on the last one,
\* resetTime of the last rejection (-1: none, or a request has been let
\* through or has come after it since) and whether the last request was
\* the first to come after it; the last instant at which a request was let
\* through and how many were let through at that instant
NoRequestYet ==
    [fn |-> "retry", n |-> 0, nfail |-> 0, fail |-> NoFailure,
     rejectedUntil |-> -1, after |-> FALSE,
     allowedAt |-> -1, allowed |-> 0]

\* one request of the client, from the entry of rateLimiter to its answer,
\* with a connected client in lib/redis; no other request is in flight, so
\* the awaited commands follow each other.  `fail` is the command that
\* rejects (a rejected command is not applied by the server)
RetryRequest(k, fail) ==
    LET last == IF call = NoCall THEN NoRequestYet ELSE call
        i == TableInst
        incremented == IF fail = "incr" THEN store[k] ELSE RedisIncr(store[k])
        currentCount == incremented.count
        expiring == IF fail # "incr" /\ CreatedCounter(currentCount)
                       /\ fail # "pexpire"
                    THEN RedisPexpire(incremented, now, WindowMs)
                    ELSE incremented
        ttl == RedisPttl(expiring, now)
        resetMs == RedisResetMs(ttl, WindowMs)
        entry == InMemoryCount(rateLimitStore[i][k], now, WindowMs)
        answer ==
            IF fail = NoFailure
            THEN RateLimiterRespond(currentCount, Limit,
                                    Max(0, Limit - currentCount),
                                    Ceil(resetMs, MsPerSecond))
            ELSE IF FailClosed(nodeEnv) THEN Unavailable503
            ELSE InMemoryRespond(entry, now, Limit)
        resetTime ==
            IF fail = NoFailure THEN now + resetMs ELSE entry.resetTime
        after == last.rejectedUntil >= 0 /\ now > last.rejectedUntil
    IN  /\ call.fn \in {"none", "retry"}
        /\ last.n < MaxReq
        /\ fail # NoFailure => last.nfail < MaxFail
        /\ fail = "pexpire" => store[k].count = 0
        /\ store' = [store EXCEPT ![k] = expiring]
        /\ rateLimitStore' =
              IF fail # NoFailure /\ ~FailClosed(nodeEnv)
              THEN [rateLimitStore EXCEPT ![i][k] = entry]
              ELSE rateLimitStore
        /\ call' = [fn |-> "retry",
                    n |-> last.n + 1,
                    nfail |-> last.nfail + (IF fail = NoFailure THEN 0 ELSE 1),
                    fail |-> fail,
                    rejectedUntil |-> IF answer.status = "429" THEN resetTime
                                      ELSE IF after \/ answer.status = "next"
                                      THEN -1
                                      ELSE last.rejectedUntil,
                    after |-> after,
                    allowedAt |-> IF answer.status = "next" THEN now
                                  ELSE last.allowedAt,
                    allowed |-> IF answer.status # "next" THEN last.allowed
                                ELSE IF last.allowedAt = now
                                THEN last.allowed + 1
                                ELSE 1]
        /\ result' = [fn |-> "retry", resp |-> answer]
        /\ UNCHANGED <<db, nodeEnv, redisUrl, redis, status, now, pc, req,
                       resp, trace, hist>>

InitRetry == InitStore

NextRetry ==
    \/ \E k \in Keys, fail \in FailurePoints : RetryRequest(k, fail)
    \/ Sweep(TableInst)
    \/ Tick

SpecRetry == InitRetry /\ [][NextRetry]_vars

\* C29: a request that arrives after the resetTime of the last rejection of
\* its key, and on which no command fails, is let through, whatever was
\* sent and whatever failed before
C29_NoLockout ==
    (call # NoCall /\ call.after /\ call.fail = NoFailure) =>
        result.resp.status = "next"

\* C30: in development, the requests of one key that are let through at
\* one instant, and so within one window, are at most the policy limit,
\* also when some of them are counted by Redis and the others by the table
C30_AllowedWithinLimit ==
    (call # NoCall /\ call.fn = "retry" /\ nodeEnv = "development") =>
        call.allowed <= Limit

====
